---- MODULE Spec2Model ----
(***************************************************************************)
(* Stratified sampling of the NOMAD curation scripts:                      *)
(*   src/query_nomad/script.py                  stratified_sample          *)
(*   src/query_nomad/script_distinct_authors.py                            *)
(*                        main_author_diverse_stratified_sample            *)
(* One call of a sampling function is a state machine whose position is    *)
(* pc; the random.Random object is the stream of the values it has handed  *)
(* out (rng.tape) and the position in that stream (rng.pos).               *)
(* main of either script is a state machine whose position is main_pc     *)
(* (SpecMain), the fetch one whose position is fetch_pc (SpecFetch).       *)
(***************************************************************************)
EXTENDS Integers, Sequences, FiniteSets, TLC

\* ------------------------------------------------------------------ bounds
\* Every population of at most MaxEntries entries is explored, every
\* population of at most MaxBlockEntries entries that lists its strata one after
\* the other and names no author, and the populations of ScenarioRequests.
MaxEntries == 3
MaxBlockEntries == 6
\* The same for the calls that are executed twice (SpecRerun).
MaxRerunEntries == 2
\* The allocation does not look at the authors: SpecAlloc explores every
\* population of at most MaxAllocEntries entries that names no author.
MaxAllocEntries == 4
\* main is run on every population of at most MaxMainEntries entries that lists
\* its strata one after the other, with every list of NumTargetSizes sizes
\* between 0 and MaxMainEntries + 2.
MaxMainEntries == 2

\* len(TARGET_SIZES): TARGET_SIZES = [500, 2000].
NumTargetSizes == 2

\* The fetch receives at most MaxPages responses of at most MaxHits hits, with
\* or without "entry_id", or one response of one or two hits whose main_author
\* or structural_type is any value of RawAuthors or RawTypes.
MaxPages == 3
MaxHits == 2

\* ------------------------------------------------------------ value domains
Systems == {"bulk", "molecule", "unknown"}
Authors == {"alice", "bob"}
NoAuthor == "None"
AuthorOpt == Authors \cup {NoAuthor}
Variants == {"plain", "diverse"}

\* Lexical order of the stratum labels ("bulk" < "molecule" < "unknown").
LabelRank(s) == CASE s = "bulk" -> 1 [] s = "molecule" -> 2 [] OTHER -> 3

Min(a, b) == IF a < b THEN a ELSE b
Max(a, b) == IF a > b THEN a ELSE b

\* ---------------------------------------------------------------- RepoEntry
RepoEntry(i, s, a) == [entry_id |-> i, system |-> s, main_author |-> a]

\* script.py's RepoEntry has no main_author field: its entries carry NoAuthor.
AuthorsOf(v) == IF v = "diverse" THEN AuthorOpt ELSE {NoAuthor}

\* A population: entry_id is the position, so ids are pairwise distinct.
Population(f) == [i \in DOMAIN f |-> RepoEntry(i, f[i][1], f[i][2])]

\* spec section 8: ten entries, strata {bulk: 7, molecule: 3}.
PopSevenThree ==
    [i \in 1..10 |->
        RepoEntry(i, IF i <= 7 THEN "bulk" ELSE "molecule", NoAuthor)]

\* Two strata of three entries, "molecule" met first: the initial quotas fall
\* short of target 5.
PopThreeThree ==
    [i \in 1..6 |->
        RepoEntry(i, IF i <= 3 THEN "molecule" ELSE "bulk",
                  IF i \in {1, 4} THEN "alice" ELSE IF i = 2 THEN "bob" ELSE NoAuthor)]

\* Three strata of sizes 2, 2, 1 that share two authors.
PopTwoTwoOne ==
    << RepoEntry(1, "bulk", "alice"), RepoEntry(2, "bulk", "alice"),
       RepoEntry(3, "molecule", "alice"), RepoEntry(4, "molecule", "bob"),
       RepoEntry(5, "unknown", "bob") >>

\* a entries of "bulk", then b of "molecule", then c of "unknown", no authors.
BlockPopulation(a, b, c) ==
    [i \in 1..(a + b + c) |->
        RepoEntry(i, IF i <= a THEN "bulk" ELSE IF i <= a + b THEN "molecule"
                     ELSE "unknown", NoAuthor)]

\* Strata of sizes 11, 1, 1: with target 3 the initial quotas 3, 1, 1 carry a
\* surplus of two, and the surplus loop passes strata that hold one unit; with
\* target 2 the initial quotas 2, 1, 1 cannot be brought down to the target.
PopElevenOneOne == BlockPopulation(11, 1, 1)

StripAuthors(p) == [i \in DOMAIN p |-> RepoEntry(p[i].entry_id, p[i].system, NoAuthor)]

ScenarioRequests ==
    { [variant |-> v,
       entries |-> IF v = "diverse" THEN p ELSE StripAuthors(p),
       target |-> t] :
          v \in Variants, p \in {PopThreeThree, PopTwoTwoOne}, t \in 1..7 } \cup
    { [variant |-> v, entries |-> PopSevenThree, target |-> 5] : v \in Variants } \cup
    { [variant |-> "plain", entries |-> PopElevenOneOne, target |-> t] : t \in {2, 3} }

\* ------------------------------------------------- RepoEntry.from_api_result
\* A JSON value of a hit: kind is "missing" (no such key), "null", "str" (its
\* characters in chars), "num", or "dict" (its key/value pairs in items, in the
\* order of the document).
JMissing == [kind |-> "missing", chars |-> <<>>, num |-> 0, items |-> <<>>]
JNull == [kind |-> "null", chars |-> <<>>, num |-> 0, items |-> <<>>]
JStr(cs) == [kind |-> "str", chars |-> cs, num |-> 0, items |-> <<>>]
JNum(n) == [kind |-> "num", chars |-> <<>>, num |-> n, items |-> <<>>]
JDict(its) == [kind |-> "dict", chars |-> <<>>, num |-> 0, items |-> its]

\* Optional[str]: None, or a string kept as its characters.
None == [some |-> FALSE, text |-> <<>>]
Some(cs) == [some |-> TRUE, text |-> cs]

IsSpace(c) == c = " "

\* str.strip(): without the leading and trailing whitespace.
RECURSIVE LStrip(_)
LStrip(cs) == IF cs # <<>> /\ IsSpace(Head(cs)) THEN LStrip(Tail(cs)) ELSE cs

RECURSIVE RStrip(_)
RStrip(cs) ==
    IF cs # <<>> /\ IsSpace(cs[Len(cs)]) THEN RStrip(SubSeq(cs, 1, Len(cs) - 1)) ELSE cs

Strip(cs) == RStrip(LStrip(cs))

\* raw_ma.get(key): the value of the key, None when the object has no such key.
DictGet(its, key) ==
    IF \E i \in 1..Len(its) : its[i].key = key
    THEN its[CHOOSE i \in 1..Len(its) : its[i].key = key].value
    ELSE JNull

\* Order of the keys as sort_keys=True compares them.
KeyRank(k) == CASE k = "email" -> 1 [] k = "name" -> 2 [] OTHER -> 3

RECURSIVE InsertByKey(_, _)
InsertByKey(sorted, it) ==
    IF sorted = <<>> THEN <<it>>
    ELSE IF KeyRank(Head(sorted).key) <= KeyRank(it.key)
         THEN <<Head(sorted)>> \o InsertByKey(Tail(sorted), it)
         ELSE <<it>> \o sorted

RECURSIVE SortItems(_)
SortItems(its) ==
    IF its = <<>> THEN <<>>
    ELSE InsertByKey(SortItems(SubSeq(its, 1, Len(its) - 1)), its[Len(its)])

\* json.dumps of a value that is no object.
JsonAtom(v) ==
    CASE v.kind = "str" -> <<"\"">> \o v.chars \o <<"\"">>
      [] v.kind = "num" -> <<"7">>
      [] OTHER -> <<"n", "u", "l", "l">>

RECURSIVE JsonItems(_)
JsonItems(its) ==
    IF its = <<>> THEN <<>>
    ELSE <<"\"", Head(its).key, "\"", ":", " ">> \o JsonAtom(Head(its).value) \o
         (IF Len(its) > 1 THEN <<",", " ">> ELSE <<>>) \o JsonItems(Tail(its))

\* json.dumps(raw_ma, sort_keys=True) of an object.
JsonDumps(v) == <<"{">> \o JsonItems(SortItems(v.items)) \o <<"}">>

\* The normalisation with the email looked at before the name.
MainAuthorEmailFirst(raw_ma) ==
    IF raw_ma.kind = "str"
    THEN IF Strip(raw_ma.chars) # <<>> THEN Some(Strip(raw_ma.chars)) ELSE None
    ELSE IF raw_ma.kind = "dict"
    THEN LET name == DictGet(raw_ma.items, "name")
             email == DictGet(raw_ma.items, "email")
         IN  IF email.kind = "str" /\ Strip(email.chars) # <<>>
             THEN Some(Strip(email.chars))
             ELSE IF name.kind = "str" /\ Strip(name.chars) # <<>>
             THEN Some(Strip(name.chars))
             ELSE Some(JsonDumps(raw_ma))
    ELSE None

\* main_author of from_api_result, from raw_ma = d.get("main_author").
MainAuthor(raw_ma) ==
    IF raw_ma.kind = "str"
    THEN IF Strip(raw_ma.chars) # <<>> THEN Some(Strip(raw_ma.chars)) ELSE None
    ELSE IF raw_ma.kind = "dict"
    THEN LET name == DictGet(raw_ma.items, "name")
             email == DictGet(raw_ma.items, "email")
         IN  IF name.kind = "str" /\ Strip(name.chars) # <<>>
             THEN Some(Strip(name.chars))
             ELSE IF email.kind = "str" /\ Strip(email.chars) # <<>>
             THEN Some(Strip(email.chars))
             ELSE Some(JsonDumps(raw_ma))
    ELSE None

\* structural_type = material.get("structural_type"), None ("None") when
\* results, material or the key is missing or null.
NoType == "None"

\* system = structural_type if structural_type else "unknown"
SystemOf(structural_type) ==
    IF structural_type = NoType \/ structural_type = "" THEN "unknown"
    ELSE structural_type

\* A hit of /entries/query: has_id tells whether it carries the key
\* "entry_id".  upload_id and mainfile are copied as they come and left out.
RawHit(has, id, ma, st) ==
    [has_id |-> has, entry_id |-> id, main_author |-> ma, structural_type |-> st]

\* cls(...) of from_api_result for a hit that has its "entry_id"; script.py's
\* RepoEntry has no main_author.
FromApiResult(v, d) ==
    [entry_id |-> d.entry_id,
     main_author |-> IF v = "diverse" THEN MainAuthor(d.main_author) ELSE None,
     system |-> SystemOf(d.structural_type),
     structural_type |-> d.structural_type]

\* The loop over the hits that stops at the first hit without "entry_id".
RECURSIVE CollectHitsBreak(_, _, _)
CollectHitsBreak(v, hits, all) ==
    IF hits = <<>> THEN all
    ELSE IF Head(hits).has_id
         THEN CollectHitsBreak(v, Tail(hits), Append(all, FromApiResult(v, Head(hits))))
         ELSE all

\* for d in hits: try: all_entries.append(RepoEntry.from_api_result(d))
\*                except KeyError: continue
RECURSIVE CollectHits(_, _, _)
CollectHits(v, hits, all) ==
    IF hits = <<>> THEN all
    ELSE IF Head(hits).has_id
         THEN CollectHits(v, Tail(hits), Append(all, FromApiResult(v, Head(hits))))
         ELSE CollectHits(v, Tail(hits), all)

\* ------------------------------------------------------------ random.Random
\* The generator is the stream of values it hands out: rng.tape holds the
\* values handed out so far, rng.pos the number of values consumed.  A value
\* not handed out yet is any value of its range; a generator put back to an
\* earlier state (same seed) hands out the recorded values again.
RECURSIVE DrawSeqs(_)
DrawSeqs(ranges) ==
    IF ranges = <<>> THEN {<<>>}
    ELSE { <<d>> \o rest : d \in 0..(Head(ranges) - 1), rest \in DrawSeqs(Tail(ranges)) }

RngDraws(r, ranges) ==
    LET k == Len(ranges)
        known == Min(k, Max(Len(r.tape) - r.pos, 0))
    IN  { [i \in 1..k |-> IF i <= known THEN r.tape[r.pos + i] % ranges[i]
                                        ELSE free[i - known]] :
              free \in DrawSeqs(SubSeq(ranges, known + 1, k)) }

RngAdvance(r, ds) ==
    [tape |-> [i \in 1..Max(Len(r.tape), r.pos + Len(ds)) |->
                  IF i <= Len(r.tape) THEN r.tape[i] ELSE ds[i - r.pos]],
     pos |-> r.pos + Len(ds)]

\* random.shuffle(x): for i in reversed(range(1, len(x))): j = randbelow(i + 1);
\* x[i], x[j] = x[j], x[i].  One draw per i, of range i + 1.
ShuffleRanges(n) == [i \in 1..Max(n - 1, 0) |-> n - i + 1]

Swap(x, i, j) == [x EXCEPT ![i] = x[j], ![j] = x[i]]

RECURSIVE ShuffleFrom(_, _, _)
ShuffleFrom(x, i, ds) ==
    IF i < 2 THEN x
    ELSE ShuffleFrom(Swap(x, i, Head(ds) + 1), i - 1, Tail(ds))

Shuffle(x, ds) == ShuffleFrom(x, Len(x), ds)

\* random.sample(population, k) for a short population: pool = list(population);
\* for i in range(k): j = randbelow(n - i); result[i] = pool[j];
\* pool[j] = pool[n - i - 1].
SampleRanges(n, k) == [i \in 1..k |-> n - i + 1]

RECURSIVE SamplePool(_, _)
SamplePool(pool, ds) ==
    IF ds = <<>> THEN <<>>
    ELSE LET n == Len(pool)
             j == Head(ds) + 1
             rest == [i \in 1..(n - 1) |-> IF i = j THEN pool[n] ELSE pool[i]]
         IN  <<pool[j]>> \o SamplePool(rest, Tail(ds))

\* ------------------------------------------------------------- bucketing
RECURSIVE BucketKeys(_)
BucketKeys(es) ==
    IF es = <<>> THEN <<>>
    ELSE LET front == BucketKeys(SubSeq(es, 1, Len(es) - 1))
             s == es[Len(es)].system
         IN  IF \E i \in 1..Len(front) : front[i] = s THEN front ELSE Append(front, s)

Range(q) == { q[i] : i \in 1..Len(q) }

Bucket(es, s) == SelectSeq(es, LAMBDA e : e.system = s)

Buckets(es) == [s \in Range(BucketKeys(es)) |-> Bucket(es, s)]

\* ------------------------------------------------------------- allocation
\* Rounding that sends a half down.
RoundHalfDown(num, den) ==
    LET q == num \div den
        r == num % den
    IN  IF 2 * r > den THEN q + 1 ELSE q

\* round(x) of Python: to the nearest integer, a half to the even neighbour.
\* x = num / den is evaluated exactly; for the populations explored here the
\* float product (len(bucket) / n_total) * target_size rounds the same way.
RoundHalfEven(num, den) ==
    LET q == num \div den
        r == num % den
    IN  IF 2 * r > den THEN q + 1
        ELSE IF 2 * r < den THEN q
        ELSE IF q % 2 = 0 THEN q ELSE q + 1

\* The initial quota without the floor "if k < 1 and len(bucket) > 0: k = 1".
InitialQuotaNoMinimum(len, total, target) == RoundHalfEven(len * target, total)

InitialQuota(len, total, target) ==
    LET k == RoundHalfEven(len * target, total)   \* int(round(frac * target_size))
    IN  IF k < 1 /\ len > 0 THEN 1 ELSE k

RECURSIVE SumOver(_, _)
SumOver(f, keys) ==
    IF keys = <<>> THEN 0 ELSE f[Head(keys)] + SumOver(f, Tail(keys))

\* An unstable descending sort: strata of equal size end in reverse order.
RECURSIVE InsertBySizeUnstable(_, _, _)
InsertBySizeUnstable(sorted, s, b) ==
    IF sorted = <<>> THEN <<s>>
    ELSE IF Len(b[Head(sorted)]) > Len(b[s])
         THEN <<Head(sorted)>> \o InsertBySizeUnstable(Tail(sorted), s, b)
         ELSE <<s>> \o sorted

\* sorted(buckets.keys(), key=lambda s: len(buckets[s]), reverse=True): a stable
\* sort, so strata of equal size keep the order of the dictionary's keys.
RECURSIVE InsertBySize(_, _, _)
InsertBySize(sorted, s, b) ==
    IF sorted = <<>> THEN <<s>>
    ELSE IF Len(b[Head(sorted)]) >= Len(b[s])
         THEN <<Head(sorted)>> \o InsertBySize(Tail(sorted), s, b)
         ELSE <<s>> \o sorted

RECURSIVE SystemsSorted(_, _)
SystemsSorted(keys, b) ==
    IF keys = <<>> THEN <<>>
    ELSE InsertBySize(SystemsSorted(SubSeq(keys, 1, Len(keys) - 1), b),
                      keys[Len(keys)], b)

\* remaining that leaves one unit undistributed.
RemainingShort(current, target) == target - current - 1

\* remaining = target_size - current; surplus = current - target_size.
Remaining(current, target) == target - current

SurplusShort(current, target) == current - target - 1

\* surplus that leaves the surplus loop out.
SurplusNone(current, target) == 0

Surplus(current, target) == current - target

\* systems_sorted[idx % len(systems_sorted)]
StratumAt(sorted, i) == sorted[(i % Len(sorted)) + 1]

\* The loop condition with the test "v > 2".
AnyAbove2(a) == \E s \in DOMAIN a : a[s] > 2

AnyAbove1(a) == \E s \in DOMAIN a : a[s] > 1

\* -------------------------------------------------------------- selection
\* First pass with the test for a missing author inverted: it skips the
\* entries that name an author.
RECURSIVE FirstPassPrefersNone(_, _, _, _)
FirstPassPrefersNone(bucket_copy, need, system_selected, used) ==
    IF bucket_copy = <<>> \/ Len(system_selected) >= need
    THEN [chosen |-> system_selected, used |-> used]
    ELSE LET e == Head(bucket_copy)
         IN  IF e.main_author # NoAuthor
             THEN FirstPassPrefersNone(Tail(bucket_copy), need, system_selected, used)
             ELSE IF e.main_author \notin used
             THEN FirstPassPrefersNone(Tail(bucket_copy), need,
                                       Append(system_selected, e),
                                       used \cup {e.main_author})
             ELSE FirstPassPrefersNone(Tail(bucket_copy), need, system_selected, used)

\* First pass (script_distinct_authors.py): prefer unseen main_author.  Yields
\* the entries chosen and the authors used, as the loop leaves them.
RECURSIVE FirstPass(_, _, _, _)
FirstPass(bucket_copy, need, system_selected, used) ==
    IF bucket_copy = <<>> \/ Len(system_selected) >= need
    THEN [chosen |-> system_selected, used |-> used]
    ELSE LET e == Head(bucket_copy)
         IN  IF e.main_author = NoAuthor
             THEN FirstPass(Tail(bucket_copy), need, system_selected, used)
             ELSE IF e.main_author \notin used
             THEN FirstPass(Tail(bucket_copy), need, Append(system_selected, e),
                            used \cup {e.main_author})
             ELSE FirstPass(Tail(bucket_copy), need, system_selected, used)

\* Second pass without the test "if e in system_selected: continue".
RECURSIVE SecondPassNoSkip(_, _, _)
SecondPassNoSkip(bucket_copy, need, system_selected) ==
    IF bucket_copy = <<>> \/ Len(system_selected) >= need THEN system_selected
    ELSE SecondPassNoSkip(Tail(bucket_copy), need,
                          Append(system_selected, Head(bucket_copy)))

\* Second pass: fill the remaining slots ignoring author overlap.
RECURSIVE SecondPass(_, _, _)
SecondPass(bucket_copy, need, system_selected) ==
    IF bucket_copy = <<>> \/ Len(system_selected) >= need THEN system_selected
    ELSE LET e == Head(bucket_copy)
         IN  IF e \in Range(system_selected)
             THEN SecondPass(Tail(bucket_copy), need, system_selected)
             ELSE SecondPass(Tail(bucket_copy), need, Append(system_selected, e))

\* The order in which the selection loop takes the strata:
\* systems_sorted (script_distinct_authors.py), buckets.items() (script.py).
SelectionOrder(v, keys, sorted) == IF v = "diverse" THEN sorted ELSE keys

\* ------------------------------------------------------------------ state
VARIABLES
    variant,        \* which script's sampling function runs
    entries,        \* the population handed to the call
    requested,      \* target_size as passed by the caller
    target_size,    \* target_size, clamped once the call has begun
    rng,            \* the random.Random handed to the call
    pc,             \* position in the call
    error,          \* message of the ValueError raised, "" when none
    n_total, buckets, bucket_keys,
    alloc, systems_sorted, remaining, surplus, idx,
    used_authors, selected, stratum_no,
    visited,        \* history: the iterations of the drift fix-up loop, in order
    contrib,        \* history: what each stratum contributed, in order
    pure_selected,  \* history: the selection with the first pass skipped
    run_no,         \* which execution of the call this is
    first_result,   \* what the first execution returned, and its generator
    main_pc,        \* position in main, "none" when the function is called directly
    target_sizes,   \* TARGET_SIZES
    size_no,        \* position of the for loop in TARGET_SIZES
    calls,          \* history: the calls of the sampling function made by main
    written,        \* history: the write_json / write_csv pairs made by main
    files,          \* the files of the working directory: name -> entries written
    fetch_pc,       \* position in the fetch, "none" when no fetch runs
    page,           \* page
    all_entries,    \* all_entries of the fetch
    received,       \* history: the hits of all responses so far, in order
    printed,        \* the lines the fetch has printed
    json_body,      \* json_body["pagination"]["page_after_value"] of the fetch
    exchanges,      \* history: the requests sent and what came back, in order
    returned        \* what the fetch has returned to its caller, if it has

mainvars == << main_pc, target_sizes, size_no, calls, written, files >>

fetchvars == << fetch_pc, page, all_entries, received, printed, json_body,
               exchanges, returned >>

vars == << variant, entries, requested, target_size, rng, pc, error,
           n_total, buckets, bucket_keys, alloc, systems_sorted, remaining,
           surplus, idx, used_authors, selected, stratum_no, visited, contrib,
           pure_selected, run_no, first_result, mainvars, fetchvars >>

caller == << run_no, first_result, mainvars, fetchvars >>

request == << variant, entries, requested >>
locals == << n_total, buckets, bucket_keys, alloc, systems_sorted, remaining,
             surplus, idx, used_authors, selected, stratum_no, visited, contrib,
             pure_selected >>

\* used_authors kept from an earlier call (a set shared by all calls).
StaleUsedAuthors == used_authors

\* used_authors at the start of a call.
InitialUsedAuthors == {}

FreshLocals ==
    /\ n_total = 0
    /\ buckets = <<>>
    /\ bucket_keys = <<>>
    /\ alloc = <<>>
    /\ systems_sorted = <<>>
    /\ remaining = 0
    /\ surplus = 0
    /\ idx = 0
    /\ used_authors = {}
    /\ selected = <<>>
    /\ stratum_no = 1
    /\ visited = <<>>
    /\ contrib = <<>>
    /\ pure_selected = <<>>

Call(v, p, t) ==
    /\ variant = v
    /\ entries = p
    /\ requested = t
    /\ target_size = t

\* A call on any population of at most max entries, with any target from -1
\* to one more than the population size.
SmallCall(max) ==
    \E v \in Variants, n \in 0..max :
        \E f \in [1..n -> Systems \X AuthorsOf(v)], t \in (-1)..(n + 1) :
            Call(v, Population(f), t)

\* The same on the populations that name no author.
AuthorlessCall(max) ==
    \E v \in Variants, n \in 0..max :
        \E f \in [1..n -> Systems \X {NoAuthor}], t \in (-1)..(n + 1) :
            Call(v, Population(f), t)

\* A call on a larger population that lists its strata one after the other;
\* it has at least two strata (with one, every quota is the target).
BlockCall ==
    \E v \in Variants, a \in 0..MaxBlockEntries, b \in 0..MaxBlockEntries,
       c \in 0..MaxBlockEntries :
        /\ a + b + c > MaxEntries
        /\ a + b + c <= MaxBlockEntries
        /\ a * b + b * c + a * c > 0
        /\ \E t \in 1..(a + b + c + 1) : Call(v, BlockPopulation(a, b, c), t)

ScenarioCall ==
    \E r \in ScenarioRequests : Call(r.variant, r.entries, r.target)

\* main is not running: the sampling function is called directly.
NoMain ==
    /\ main_pc = "none"
    /\ target_sizes = <<>>
    /\ size_no = 0
    /\ calls = <<>>
    /\ written = <<>>
    /\ files = <<>>

\* The fetch has not returned; the value of "return all_entries".
NotReturned == [done |-> FALSE, value |-> <<>>]

Returned(all) == [done |-> TRUE, value |-> all]

\* No fetch is running: the population is given.
NoFetch ==
    /\ fetch_pc = "none"
    /\ page = 0
    /\ all_entries = <<>>
    /\ received = <<>>
    /\ printed = <<>>
    /\ json_body = JMissing
    /\ exchanges = <<>>
    /\ returned = NotReturned

\* The generator is new, nothing has run.
BeforeCall ==
    /\ rng = [tape |-> <<>>, pos |-> 0]
    /\ run_no = 1
    /\ first_result = <<>>
    /\ pc = "start"
    /\ error = ""
    /\ FreshLocals
    /\ NoMain
    /\ NoFetch

Init ==
    /\ \/ SmallCall(MaxEntries)
       \/ BlockCall
       \/ ScenarioCall
    /\ BeforeCall

InitRerun ==
    /\ \/ SmallCall(MaxRerunEntries)
       \/ ScenarioCall
    /\ BeforeCall

InitAlloc ==
    /\ \/ AuthorlessCall(MaxAllocEntries)
       \/ BlockCall
       \/ ScenarioCall
    /\ BeforeCall

\* The argument checks with the test of the population first.
ArgumentErrorEmptyFirst(t, es) ==
    IF Len(es) = 0 THEN "no entries available for sampling"
    ELSE IF t <= 0 THEN "target_size must be positive"
    ELSE ""

\* The message of the ValueError the argument checks raise, "" when none.
ArgumentError(t, es) ==
    IF t <= 0 THEN "target_size must be positive"
    ELSE IF Len(es) = 0 THEN "no entries available for sampling"
    ELSE ""

\* target_size left as passed.
NoClamp(t, n) == t

\* if target_size > n_total: target_size = n_total
ClampTarget(t, n) == IF t > n THEN n ELSE t

\* Argument checks, clamp of target_size and bucketing by system.
Begin ==
    /\ pc = "start"
    /\ IF ArgumentError(target_size, entries) # ""
       THEN /\ error' = ArgumentError(target_size, entries)
            /\ pc' = "error"
            /\ UNCHANGED << target_size, n_total, buckets, bucket_keys >>
       ELSE /\ n_total' = Len(entries)
            /\ target_size' = ClampTarget(target_size, Len(entries))
            /\ bucket_keys' = BucketKeys(entries)
            /\ buckets' = Buckets(entries)
            /\ pc' = "alloc"
            /\ error' = error
    /\ UNCHANGED << caller, request, rng, alloc, systems_sorted, remaining, surplus, idx,
                    used_authors, selected, stratum_no, visited, contrib,
                    pure_selected >>

\* Proportional allocation, systems_sorted and the choice of the fix-up branch.
Allocate ==
    /\ pc = "alloc"
    /\ LET a == [s \in DOMAIN buckets |->
                    InitialQuota(Len(buckets[s]), n_total, target_size)]
           current == SumOver(a, bucket_keys)
       IN  /\ alloc' = a
           /\ systems_sorted' = SystemsSorted(bucket_keys, buckets)
           /\ idx' = 0
           /\ remaining' = IF current < target_size
                           THEN Remaining(current, target_size) ELSE remaining
           /\ surplus' = IF current > target_size
                         THEN Surplus(current, target_size) ELSE surplus
           /\ pc' = IF current < target_size /\ remaining' > 0 THEN "add"
                    ELSE IF current > target_size /\ surplus' > 0 /\ AnyAbove1(a)
                    THEN "remove"
                    ELSE "select"
           /\ visited' = <<>>
           /\ contrib' = <<>>
           /\ pure_selected' = <<>>
    /\ stratum_no' = 1
    /\ UNCHANGED << caller, request, target_size, rng, error, n_total, buckets,
                    bucket_keys, used_authors, selected >>

\* One iteration of: while remaining > 0.
AddRemaining ==
    /\ pc = "add"
    /\ LET s == StratumAt(systems_sorted, idx)
       IN  /\ alloc' = [alloc EXCEPT ![s] = @ + 1]
           /\ visited' = Append(visited, [system |-> s, before |-> alloc[s], delta |-> 1])
    /\ remaining' = remaining - 1
    /\ idx' = idx + 1
    /\ pc' = IF remaining' > 0 THEN "add" ELSE "select"
    /\ UNCHANGED << caller, request, target_size, rng, error, n_total, buckets, bucket_keys,
                    systems_sorted, surplus, used_authors, selected, stratum_no,
                    contrib, pure_selected >>

\* Surplus loop without the test "if alloc[s] > 1".
MayRemoveAlways(a, s) == TRUE

\* Whether the surplus loop takes a unit from stratum s.
MayRemove(a, s) == a[s] > 1

\* One iteration of: while surplus > 0 and any(v > 1 for v in alloc.values()).
RemoveSurplus ==
    /\ pc = "remove"
    /\ LET s == StratumAt(systems_sorted, idx)
           a == IF MayRemove(alloc, s) THEN [alloc EXCEPT ![s] = @ - 1] ELSE alloc
           left == IF MayRemove(alloc, s) THEN surplus - 1 ELSE surplus
       IN  /\ alloc' = a
           /\ surplus' = left
           /\ visited' = Append(visited,
                  [system |-> s, before |-> alloc[s], delta |-> a[s] - alloc[s]])
           /\ pc' = IF left > 0 /\ AnyAbove1(a) THEN "remove" ELSE "select"
    /\ idx' = idx + 1
    /\ UNCHANGED << caller, request, target_size, rng, error, n_total, buckets, bucket_keys,
                    systems_sorted, remaining, used_authors, selected, stratum_no,
                    contrib, pure_selected >>

\* entries whose entry_id is not among those of sel, in population order.
RemainingPool(es, sel) ==
    SelectSeq(es, LAMBDA e : e.entry_id \notin { x.entry_id : x \in Range(sel) })

\* Trim that keeps every entry selected.
NoTrim(sel, ds) == sel

\* selected = rng.sample(selected, target_size), given the draws of the sample.
Trim(sel, ds) == SamplePool(sel, ds)

\* A stratum's pick whose second pass also records the authors it meets.
DiversePickSecondRecords(bucket_copy, need, used) ==
    LET first == FirstPass(bucket_copy, need, <<>>, used)
        picked == IF Len(first.chosen) < need
                  THEN SecondPass(bucket_copy, need, first.chosen)
                  ELSE first.chosen
    IN  [first |-> first.chosen,
         used |-> { picked[i].main_author : i \in 1..Len(picked) } \cup used,
         picked |-> picked]

\* A stratum's pick without the second pass.
DiversePickFirstOnly(bucket_copy, need, used) ==
    LET first == FirstPass(bucket_copy, need, <<>>, used)
    IN  [first |-> first.chosen, used |-> first.used, picked |-> first.chosen]

\* What one stratum adds to selected, given the shuffled bucket and the
\* authors used so far (script_distinct_authors.py).
DiversePick(bucket_copy, need, used) ==
    LET first == FirstPass(bucket_copy, need, <<>>, used)
    IN  [first |-> first.chosen,
         used |-> first.used,
         picked |-> IF Len(first.chosen) < need
                    THEN SecondPass(bucket_copy, need, first.chosen)
                    ELSE first.chosen]

\* One iteration of the selection loop: one stratum.  Before the first
\* iteration used_authors and selected are set to empty.
SelectStratum ==
    /\ pc = "select"
    /\ LET order == SelectionOrder(variant, bucket_keys, systems_sorted)
           system == order[stratum_no]
           bucket == buckets[system]
           need == alloc[system]
           used0 == IF stratum_no = 1 THEN InitialUsedAuthors ELSE used_authors
           sel0 == IF stratum_no = 1 THEN <<>> ELSE selected
           k == Min(need, Len(bucket))
           skip == IF variant = "diverse" THEN need <= 0 \/ bucket = <<>> ELSE k <= 0
           ranges == IF variant = "diverse" THEN ShuffleRanges(Len(bucket))
                     ELSE SampleRanges(Len(bucket), k)
       IN  /\ IF skip
              THEN /\ used_authors' = used0
                   /\ selected' = sel0
                   /\ rng' = rng
                   /\ pure_selected' = pure_selected
                   /\ contrib' = Append(contrib,
                          [system |-> system, need |-> need, size |-> Len(bucket),
                           first |-> <<>>, picked |-> <<>>])
              ELSE \E ds \in RngDraws(rng, ranges) :
                   LET p == IF variant = "diverse"
                            THEN DiversePick(Shuffle(bucket, ds), need, used0)
                            ELSE [first |-> <<>>, used |-> used0,
                                  picked |-> SamplePool(bucket, ds)]
                       pure == IF variant = "diverse"
                               THEN SecondPass(Shuffle(bucket, ds), need, <<>>)
                               ELSE p.picked
                   IN  /\ used_authors' = p.used
                       /\ selected' = sel0 \o p.picked
                       /\ rng' = RngAdvance(rng, ds)
                       /\ pure_selected' = pure_selected \o pure
                       /\ contrib' = Append(contrib,
                              [system |-> system, need |-> need, size |-> Len(bucket),
                               first |-> p.first, picked |-> p.picked])
           /\ pc' = IF stratum_no >= Len(order) THEN "reconcile" ELSE "select"
    /\ stratum_no' = stratum_no + 1
    /\ UNCHANGED << caller, request, target_size, error, n_total, buckets, bucket_keys, alloc,
                    systems_sorted, remaining, surplus, idx, visited >>

\* Global trim / top-up to target_size, and return.
Reconcile ==
    /\ pc = "reconcile"
    /\ IF Len(selected) > target_size
       THEN \E ds \in RngDraws(rng, SampleRanges(Len(selected), target_size)) :
                /\ selected' = Trim(selected, ds)
                /\ pure_selected' = SamplePool(pure_selected, ds)
                /\ rng' = RngAdvance(rng, ds)
       ELSE IF Len(selected) < target_size
       THEN LET remaining_pool == RemainingPool(entries, selected)
                k_extra == Min(target_size - Len(selected), Len(remaining_pool))
            IN  \E ds \in RngDraws(rng, SampleRanges(Len(remaining_pool), Max(k_extra, 0))) :
                    /\ selected' = selected \o SamplePool(remaining_pool, ds)
                    /\ pure_selected' =
                           pure_selected \o
                           SamplePool(RemainingPool(entries, pure_selected), ds)
                    /\ rng' = RngAdvance(rng, ds)
       ELSE UNCHANGED << selected, pure_selected, rng >>
    /\ pc' = "done"
    /\ UNCHANGED << caller, request, target_size, error, n_total, buckets, bucket_keys, alloc,
                    systems_sorted, remaining, surplus, idx, used_authors, stratum_no,
                    visited, contrib >>

\* A second execution of the same call (same population, same target) with a
\* generator in the same initial state as the first: random.Random(RNG_SEED)
\* again.  The locals of the new call hold nothing until the code sets them.
Rerun ==
    /\ pc = "done"
    /\ run_no = 1
    /\ run_no' = 2
    /\ first_result' = [sample |-> selected, rng |-> rng]
    /\ rng' = [rng EXCEPT !.pos = 0]
    /\ target_size' = requested
    /\ pc' = "start"
    /\ UNCHANGED << request, error, locals, mainvars, fetchvars >>

\* ------------------------------------------------------------------- main
\* main that goes on with an empty population.
NeverAbort(fetched) == FALSE

\* if not all_entries: print("[error] No entries fetched, aborting."); return
ShouldAbort(fetched) == Len(fetched) = 0

\* A non-positive size that ends the loop (break).
AfterSkipBreak(no, len) == len + 1

\* if size <= 0: continue -- the loop goes to the next size.
AfterSkip(no, len) == no + 1

\* if size > len(all_entries): size = len(all_entries)
EffectiveSize(size, n) == IF size > n THEN n ELSE size

\* f"sample_mainauthor_{size}.json" (script_distinct_authors.py),
\* f"orca_sample_{size}.json" (script.py), and the same with ".csv".
FilePrefix(v) == IF v = "diverse" THEN "sample_mainauthor_" ELSE "orca_sample_"

FileName(v, size, ext) == << FilePrefix(v), size, ext >>

\* open(filename, "w") and the dump of the sample: the file holds the entries
\* of the sample, whatever it held before.
WriteFile(fs, name, sample) ==
    [n \in DOMAIN fs \cup {name} |-> IF n = name THEN sample ELSE fs[n]]

\* main up to the loop over TARGET_SIZES; entries is what the fetch returned.
MainStart ==
    /\ main_pc = "fetched"
    /\ main_pc' = IF ShouldAbort(entries) THEN "aborted" ELSE "loop"
    /\ UNCHANGED fetchvars
    /\ UNCHANGED << request, target_size, rng, pc, error, locals, run_no, first_result,
                    target_sizes, size_no, calls, written, files >>

\* The head of one iteration of: for size in TARGET_SIZES, up to the call of
\* the sampling function.
MainNextSize ==
    /\ main_pc = "loop"
    /\ size_no <= Len(target_sizes)
    /\ LET size == target_sizes[size_no]
           effective == EffectiveSize(size, Len(entries))
       IN  IF size <= 0
           THEN /\ size_no' = AfterSkip(size_no, Len(target_sizes))
                /\ UNCHANGED << main_pc, calls, requested, target_size, pc >>
           ELSE /\ requested' = effective
                /\ target_size' = effective
                /\ pc' = "start"
                /\ main_pc' = "sampling"
                /\ calls' = Append(calls, [size_no |-> size_no, size |-> effective])
                /\ size_no' = size_no
    /\ UNCHANGED fetchvars
    /\ UNCHANGED << variant, entries, rng, error, locals, run_no, first_result,
                    target_sizes, written, files >>

\* The rest of the iteration once the sampling function has returned:
\* write_json and write_csv under the names made from size.
MainWrite ==
    /\ main_pc = "sampling"
    /\ pc = "done"
    /\ LET size == requested
           json_name == FileName(variant, size, ".json")
           csv_name == FileName(variant, size, ".csv")
       IN  /\ files' = WriteFile(WriteFile(files, json_name, selected), csv_name, selected)
           /\ written' = Append(written,
                  [size_no |-> size_no, asked |-> target_sizes[size_no],
                   size |-> size, sample |-> selected])
    /\ size_no' = size_no + 1
    /\ main_pc' = "loop"
    /\ pc' = "idle"
    /\ UNCHANGED fetchvars
    /\ UNCHANGED << request, target_size, rng, error, locals, run_no, first_result,
                    target_sizes, calls >>

\* The loop is over: print("[done] Sampling finished.").
MainFinish ==
    /\ main_pc = "loop"
    /\ size_no > Len(target_sizes)
    /\ main_pc' = "finished"
    /\ UNCHANGED fetchvars
    /\ UNCHANGED << request, target_size, rng, pc, error, locals, run_no, first_result,
                    target_sizes, size_no, calls, written, files >>

\* A second process whose TARGET_SIZES holds only the last size sampled by
\* the first: a new random.Random(RNG_SEED), then the sampling call.
MainSolo ==
    /\ main_pc = "finished"
    /\ run_no = 1
    /\ written # <<>>
    /\ run_no' = 2
    /\ first_result' = [sample |-> written[Len(written)].sample, rng |-> rng]
    /\ rng' = [rng EXCEPT !.pos = 0]
    /\ requested' = written[Len(written)].size
    /\ target_size' = written[Len(written)].size
    /\ pc' = "start"
    /\ main_pc' = "solo"
    /\ UNCHANGED fetchvars
    /\ UNCHANGED << variant, entries, error, locals, target_sizes, size_no, calls,
                    written, files >>

\* The sizes main may be given.
SizeLists == [1..NumTargetSizes -> 0..(MaxMainEntries + 2)]

\* Runs on populations whose allocation needs the fix-up loops.
MainScenarios ==
    { [entries |-> BlockPopulation(3, 3, 0), sizes |-> <<5, 0>>],
      [entries |-> BlockPopulation(3, 1, 0), sizes |-> <<2, 9>>] }

MainRun(v, p, ts) ==
    /\ variant = v
    /\ entries = p
    /\ target_sizes = ts
    /\ requested = 0
    /\ target_size = 0
    /\ main_pc = "fetched"
    /\ size_no = 1
    /\ calls = <<>>
    /\ written = <<>>
    /\ files = <<>>
    /\ pc = "idle"
    /\ rng = [tape |-> <<>>, pos |-> 0]
    /\ run_no = 1
    /\ first_result = <<>>
    /\ error = ""
    /\ FreshLocals
    /\ NoFetch

\* main on a fetched population, or the sampling function called directly.
InitMain ==
    \/ \E v \in Variants, a \in 0..MaxMainEntries, b \in 0..MaxMainEntries,
          c \in 0..MaxMainEntries, ts \in SizeLists :
           /\ a + b + c <= MaxMainEntries
           /\ MainRun(v, BlockPopulation(a, b, c), ts)
    \/ \E v \in Variants, r \in MainScenarios : MainRun(v, r.entries, r.sizes)
    \/ SmallCall(MaxMainEntries) /\ BeforeCall

\* ------------------------------------------------------------------ fetch
\* The values "main_author" takes in the hits explored: no key, null, a number,
\* the strings of at most two characters over " " and "a", and the objects of
\* at most two keys among "name", "email", "orcid" in either order.
RawStrings ==
    {<<>>} \cup { <<c>> : c \in {" ", "a"} } \cup { <<c, d>> : c, d \in {" ", "a"} }

RawValues == { JStr(<<" ">>), JStr(<<"a", " ">>), JStr(<<"b">>), JNum(7) }

RawKeys == {"name", "email", "orcid"}

RawObjects ==
    {JDict(<<>>)} \cup
    { JDict(<< [key |-> k, value |-> x] >>) : k \in RawKeys, x \in RawValues } \cup
    { JDict(<< [key |-> k[1], value |-> x], [key |-> k[2], value |-> y] >>) :
          k \in { kk \in RawKeys \X RawKeys : kk[1] # kk[2] },
          x \in RawValues, y \in RawValues }

\* script.py does not ask for main_author: its hits carry none.
RawAuthors(v) ==
    IF v = "diverse"
    THEN {JMissing, JNull, JNum(7)} \cup { JStr(cs) : cs \in RawStrings } \cup RawObjects
    ELSE {JMissing}

RawTypes == {NoType, "", "bulk", "molecule"}

\* A hit before its entry_id is known.
HitShape(has, ma, st) == [has_id |-> has, main_author |-> ma, structural_type |-> st]

IdShapes == { HitShape(has, JMissing, "bulk") : has \in BOOLEAN }

FieldShapes(v) ==
    { HitShape(TRUE, ma, "bulk") : ma \in RawAuthors(v) } \cup
    { HitShape(TRUE, JMissing, st) : st \in RawTypes }

\* Python's truth value of a JSON value: None, "" and 0 are false.
Truthy(v) ==
    /\ v.kind \notin {"missing", "null"}
    /\ v # JStr(<<>>)
    /\ v # JNum(0)

\* The next_page_after_value of a response that names a next page: a value
\* that stands for the position the server has reached, different from page
\* to page.
Cursor(reached) == JNum(reached + 1)

\* pagination.get("next_page_after_value") of a response that names no next
\* page: no pagination or no such key, null, "" or 0.
NoNextValues == {JMissing, JNull, JStr(<<>>), JNum(0)}

\* The responses to the request number p + 1 that are no HTTP error, the
\* server having sent `before` hits so far: the hits of data.get("data", [])
\* and the next_page_after_value of the pagination.  The last response
\* allowed names no next page.
Responses(v, p, before) ==
    { [shapes |-> sh, next_val |-> nx] :
          sh \in UNION { [1..n -> IdShapes] : n \in 1..MaxHits },
          nx \in NoNextValues } \cup
    { [shapes |-> sh, next_val |-> Cursor(before + Len(sh))] :
          sh \in { x \in UNION { [1..n -> IdShapes] : n \in 1..MaxHits } :
                       p + 1 < MaxPages } } \cup
    { [shapes |-> <<>>, next_val |-> nx] : nx \in {JMissing, Cursor(before)} } \cup
    (IF p = 0
     THEN { [shapes |-> <<h>>, next_val |-> JMissing] : h \in FieldShapes(v) } \cup
          { [shapes |-> <<h1, h2>>, next_val |-> JMissing] :
                h1 \in FieldShapes(v), h2 \in FieldShapes(v) }
     ELSE {})

\* The hits of a response: the server orders them by entry_id, ascending.
Hits(shapes, before) ==
    [k \in 1..Len(shapes) |->
        RawHit(shapes[k].has_id, IF shapes[k].has_id THEN before + k ELSE 0,
               shapes[k].main_author, shapes[k].structural_type)]

\* "[page] {page}: fetched {len(hits)} entries, total so far {len(all_entries)}"
PageLine(p, hits, all) ==
    [text |-> "page", page |-> p, fetched |-> Len(hits), total |-> Len(all)]

\* "[info] Done. Total entries fetched: {len(all_entries)}"
DoneLine(all) == [text |-> "done", page |-> 0, fetched |-> 0, total |-> Len(all)]

\* "[error] status: ..." and "[error] body: ..."
ErrorLine == [text |-> "error", page |-> 0, fetched |-> 0, total |-> 0]

\* The request body that takes the value of the first response only.
NextBodyKeepFirst(body, next_val) == IF body = JMissing THEN next_val ELSE body

\* json_body["pagination"]["page_after_value"] = next_val
NextBody(body, next_val) == next_val

\* What a request and its outcome leave in the history.
Exchange(body, status, hits, next_val) ==
    [page_after_value |-> body, status |-> status, hits |-> Len(hits),
     next_val |-> next_val]

\* One iteration of the while loop of the fetch whose response is no HTTP
\* error, and the return when the loop ends with it.
FetchPage ==
    /\ fetch_pc = "request"
    /\ page < MaxPages
    /\ \E resp \in Responses(variant, page, Len(received)) :
             LET hits == Hits(resp.shapes, Len(received))
                 next_val == resp.next_val
                 collected == CollectHits(variant, hits, all_entries)
             IN  /\ exchanges' = Append(exchanges,
                                        Exchange(json_body, "ok", hits, next_val))
                 /\ IF hits = <<>>
                    THEN /\ fetch_pc' = "done"
                         /\ printed' = Append(printed, DoneLine(all_entries))
                         /\ returned' = Returned(all_entries)
                         /\ UNCHANGED << page, all_entries, received, json_body >>
                    ELSE /\ all_entries' = collected
                         /\ received' = received \o hits
                         /\ page' = page + 1
                         /\ printed' =
                                IF Truthy(next_val)
                                THEN Append(printed, PageLine(page + 1, hits, collected))
                                ELSE printed \o << PageLine(page + 1, hits, collected),
                                                   DoneLine(collected) >>
                         /\ json_body' = IF Truthy(next_val)
                                         THEN NextBody(json_body, next_val)
                                         ELSE json_body
                         /\ returned' = IF Truthy(next_val) THEN returned
                                        ELSE Returned(collected)
                         /\ fetch_pc' = IF Truthy(next_val) THEN "request" ELSE "done"
    /\ UNCHANGED << request, target_size, rng, pc, error, locals, run_no, first_result,
                    mainvars >>

\* The response is an HTTP error: resp.raise_for_status() raises, the fetch
\* prints status and body and lets the exception go.
FetchFail ==
    /\ fetch_pc = "request"
    /\ fetch_pc' = "raised"
    /\ printed' = Append(printed, ErrorLine)
    /\ exchanges' = Append(exchanges, Exchange(json_body, "error", <<>>, JMissing))
    /\ UNCHANGED << page, all_entries, received, json_body, returned >>
    /\ UNCHANGED << request, target_size, rng, pc, error, locals, run_no, first_result,
                    mainvars >>

\* The fetch of either script begins: all_entries = [], page = 0.
InitFetch ==
    /\ variant \in Variants
    /\ fetch_pc = "request"
    /\ page = 0
    /\ all_entries = <<>>
    /\ received = <<>>
    /\ printed = <<>>
    /\ json_body = JMissing
    /\ exchanges = <<>>
    /\ returned = NotReturned
    /\ entries = <<>>
    /\ requested = 0
    /\ target_size = 0
    /\ pc = "idle"
    /\ rng = [tape |-> <<>>, pos |-> 0]
    /\ run_no = 1
    /\ first_result = <<>>
    /\ error = ""
    /\ FreshLocals
    /\ NoMain

Next ==
    \/ Begin
    \/ Allocate
    \/ AddRemaining
    \/ RemoveSurplus
    \/ SelectStratum
    \/ Reconcile

Spec == Init /\ [][Next]_vars

NextRerun ==
    \/ Next
    \/ Rerun

SpecRerun == InitRerun /\ [][NextRerun]_vars

SpecAlloc == InitAlloc /\ [][Next]_vars

NextMain ==
    \/ Next
    \/ MainStart
    \/ MainNextSize
    \/ MainWrite
    \/ MainFinish
    \/ MainSolo

SpecMain == InitMain /\ [][NextMain]_vars

NextFetch ==
    \/ FetchPage
    \/ FetchFail

SpecFetch == InitFetch /\ [][NextFetch]_vars

\* ================================================================ claims
\* The allocation (initial quotas and drift fix-up) is finished.
AllocationDone == pc \in {"select", "reconcile", "done"}

\* Number of non-empty strata of the population.
NumStrata == Cardinality({ entries[i].system : i \in 1..Len(entries) })

QuotaSum == SumOver(alloc, bucket_keys)

DistinctIds(q) ==
    \A i, j \in 1..Len(q) : i # j => q[i].entry_id # q[j].entry_id

\* Entries selected before the global trim / top-up.
RECURSIVE Contributed(_)
Contributed(c) == IF c = <<>> THEN <<>> ELSE Head(c).picked \o Contributed(Tail(c))

\* C1: a finished call returns exactly min(target, n) entries, for both
\* sampling functions, whatever the strata, authors and draws.
C1_ExactCount ==
    pc = "done" => Len(selected) = Min(requested, Len(entries))

\* C1 witness: a call whose strata contributed more entries than asked for
\* has returned exactly the target.
C1_Witness ==
    /\ pc = "done"
    /\ Len(Contributed(contrib)) > requested
    /\ Len(selected) = requested

\* C2: the entry ids of a returned sample are pairwise distinct.
C2_NoDuplicates ==
    pc = "done" => DistinctIds(selected)

\* C2 witness: a returned sample holding, from one stratum, entries of the
\* first pass and of the second pass.
C2_Witness ==
    /\ pc = "done"
    /\ Len(selected) >= 2
    /\ \E i \in 1..Len(contrib) :
          /\ Len(contrib[i].first) >= 1
          /\ Len(contrib[i].picked) > Len(contrib[i].first)

\* C3: once the initial quotas are set, through both fix-up loops and after
\* them, every non-empty stratum holds a quota >= 1 when the target is at least
\* the number of non-empty strata.
C3_AllocationMinimum ==
    (pc \in {"add", "remove", "select", "reconcile", "done"} /\ requested >= NumStrata)
        => \A s \in DOMAIN buckets : Len(buckets[s]) > 0 => alloc[s] >= 1

\* C3 witness: the surplus loop has passed a stratum holding one unit while
\* units were still to be removed, and the allocation is finished.
C3_Witness ==
    /\ pc = "select"
    /\ requested >= NumStrata
    /\ \E i \in 1..Len(visited) : visited[i].before = 1 /\ visited[i].delta = 0
    /\ \E i \in 1..Len(visited) : visited[i].delta = -1

\* C4 as claimed: for 1 <= target <= n the final quotas are non-negative and
\* sum to the target.
C4_Original ==
    (AllocationDone /\ 1 <= requested /\ requested <= Len(entries))
        => /\ \A s \in DOMAIN alloc : alloc[s] >= 0
           /\ QuotaSum = requested

\* C4 amended: for (number of non-empty strata) <= target <= n the final
\* quotas are non-negative and sum to the target.
C4_QuotaSum ==
    (AllocationDone /\ NumStrata <= requested /\ requested <= Len(entries))
        => /\ \A s \in DOMAIN alloc : alloc[s] >= 0
           /\ QuotaSum = requested

\* C4 witness: quotas that summed to more than the target were brought down
\* to it by the surplus loop.
C4_Witness ==
    /\ pc = "select"
    /\ NumStrata <= requested
    /\ requested <= Len(entries)
    /\ \E i \in 1..Len(visited) : visited[i].delta = -1
    /\ QuotaSum = requested

\* The call of spec section 8: strata {bulk: 7, molecule: 3}, target 5.
SevenThreeCall == entries = PopSevenThree /\ requested = 5

\* C5 as claimed: the quotas are bulk = 4 or 3, molecule = 1, summing to 5.
C5_Original ==
    (SevenThreeCall /\ AllocationDone)
        => /\ alloc["bulk"] \in {3, 4}
           /\ alloc["molecule"] = 1
           /\ QuotaSum = 5

\* C5 amended: the quotas are bulk = 3, molecule = 2, summing to 5.
C5_SevenThreeQuotas ==
    (SevenThreeCall /\ AllocationDone)
        => /\ alloc["bulk"] = 3
           /\ alloc["molecule"] = 2
           /\ QuotaSum = 5

\* C5 witness: the allocation of that call is finished, after one surplus
\* unit was taken from the initial quotas.
C5_Witness ==
    /\ SevenThreeCall
    /\ pc = "select"
    /\ Len(visited) = 1
    /\ visited[1].delta = -1

\* C6: a second execution on the same population and target, with the
\* generator back in its initial state, returns the same entries in the same
\* order and leaves the generator in the same state.
C6_Deterministic ==
    (run_no = 2 /\ pc = "done")
        => /\ selected = first_result.sample
           /\ rng = first_result.rng

\* C6 witness: a second execution has finished whose sample came from a
\* shuffle, a first pass that skipped entries, and a trim.
C6_Witness ==
    /\ run_no = 2
    /\ pc = "done"
    /\ variant = "diverse"
    /\ rng.pos >= 3
    /\ Len(Contributed(contrib)) > Len(selected)
    /\ \E i \in 1..Len(contrib) : contrib[i].first # <<>>

\* Number of distinct authors named by the entries of q.
DistinctKeys(q) ==
    Cardinality({ q[i].main_author : i \in 1..Len(q) } \ {NoAuthor})

\* Some stratum holds two entries naming the same author.
HasDuplicateKeyStratum ==
    \E i, j \in 1..Len(entries) :
        /\ i # j
        /\ entries[i].system = entries[j].system
        /\ entries[i].main_author = entries[j].main_author
        /\ entries[i].main_author # NoAuthor

\* C7 as claimed: with the same shuffles and the same trim choices, the sample
\* names at least as many distinct authors as the one taken with the first
\* pass skipped.
C7_Original ==
    (pc = "done" /\ variant = "diverse" /\ HasDuplicateKeyStratum)
        => DistinctKeys(selected) >= DistinctKeys(pure_selected)

\* C7 amended: the same, for the calls whose final trim is not taken (the strata
\* contributed no more than target_size entries).
C7_DiversityMonotone ==
    (/\ pc = "done"
     /\ variant = "diverse"
     /\ HasDuplicateKeyStratum
     /\ Len(Contributed(contrib)) <= target_size)
        => DistinctKeys(selected) >= DistinctKeys(pure_selected)

\* C7 witness: an untrimmed sample that names more distinct authors than the
\* one taken with the first pass skipped.
C7_Witness ==
    /\ pc = "done"
    /\ variant = "diverse"
    /\ HasDuplicateKeyStratum
    /\ Len(Contributed(contrib)) <= target_size
    /\ DistinctKeys(selected) > DistinctKeys(pure_selected)

\* Strata in the order the selection loop has taken them.
ProcessedSystems == [i \in 1..Len(contrib) |-> contrib[i].system]

\* Position of the first entry of stratum s in the population.
FirstAppearance(s) ==
    CHOOSE i \in 1..Len(entries) :
        /\ entries[i].system = s
        /\ \A j \in 1..(i - 1) : entries[j].system # s

StratumSize(s) == Cardinality({ i \in 1..Len(entries) : entries[i].system = s })

\* q lists strata by descending size, equal sizes by ascending label.
SizeThenLabelOrdered(q) ==
    \A i, j \in 1..Len(q) :
        i < j => \/ StratumSize(q[i]) > StratumSize(q[j])
                 \/ /\ StratumSize(q[i]) = StratumSize(q[j])
                    /\ LabelRank(q[i]) < LabelRank(q[j])

\* q lists strata by descending size, equal sizes by first appearance.
SizeThenAppearanceOrdered(q) ==
    \A i, j \in 1..Len(q) :
        i < j => \/ StratumSize(q[i]) > StratumSize(q[j])
                 \/ /\ StratumSize(q[i]) = StratumSize(q[j])
                    /\ FirstAppearance(q[i]) < FirstAppearance(q[j])

\* q lists strata by first appearance in the population.
AppearanceOrdered(q) ==
    \A i, j \in 1..Len(q) : i < j => FirstAppearance(q[i]) < FirstAppearance(q[j])

\* The fix-up loop takes the strata of q one after the other, cyclically.
VisitedCyclically(q) ==
    \A i \in 1..Len(visited) : visited[i].system = q[((i - 1) % Len(q)) + 1]

\* C8 as claimed: the fix-up loop and the selection loop take the strata by
\* descending size, strata of equal size by ascending label.
C8_Original ==
    (pc \in {"add", "remove", "select", "reconcile", "done"})
        => /\ SizeThenLabelOrdered(systems_sorted)
           /\ VisitedCyclically(systems_sorted)
           /\ SizeThenLabelOrdered(ProcessedSystems)

\* C8 amended: the fix-up loop of both functions and the selection loop of
\* main_author_diverse_stratified_sample take the strata by descending size,
\* strata of equal size in the order of their first appearance in the
\* population; the selection loop of stratified_sample takes the strata in the
\* order of their first appearance; every stratum is taken once.
C8_ProcessingOrder ==
    (pc \in {"add", "remove", "select", "reconcile", "done"})
        => /\ Range(systems_sorted) = DOMAIN buckets
           /\ Len(systems_sorted) = NumStrata
           /\ SizeThenAppearanceOrdered(systems_sorted)
           /\ VisitedCyclically(systems_sorted)
           /\ IF variant = "diverse"
              THEN ProcessedSystems = SubSeq(systems_sorted, 1, Len(contrib))
              ELSE AppearanceOrdered(ProcessedSystems)
           /\ pc \in {"reconcile", "done"} => Len(contrib) = NumStrata

\* C8 witness: a finished call that took two strata of equal size against the
\* order of their labels, in the fix-up loop and in the selection loop.
C8_Witness ==
    /\ pc = "done"
    /\ variant = "diverse"
    /\ Len(visited) >= 1
    /\ \E i \in 1..(Len(contrib) - 1) :
          /\ StratumSize(contrib[i].system) = StratumSize(contrib[i + 1].system)
          /\ LabelRank(contrib[i].system) > LabelRank(contrib[i + 1].system)

\* Entries chosen by the first pass so far, over all strata taken.
RECURSIVE FirstChosen(_)
FirstChosen(c) == IF c = <<>> THEN <<>> ELSE Head(c).first \o FirstChosen(Tail(c))

\* C9: throughout a call of main_author_diverse_stratified_sample,
\* used_authors is exactly the set of authors of the entries chosen by the
\* first pass so far; each of them names an author, no two name the same one.
C9_UsedAuthors ==
    variant = "diverse"
        => LET fc == FirstChosen(contrib)
           IN  /\ used_authors = { fc[i].main_author : i \in 1..Len(fc) }
               /\ NoAuthor \notin used_authors
               /\ \A i, j \in 1..Len(fc) :
                      i # j => fc[i].main_author # fc[j].main_author

\* C9 witness: two strata have been taken, the first pass chose entries in
\* both, and the second pass added an entry whose author was already used.
C9_Witness ==
    /\ variant = "diverse"
    /\ Len(contrib) >= 2
    /\ \A i \in 1..2 : contrib[i].first # <<>>
    /\ \E i \in 1..Len(contrib) :
          \E k \in 1..Len(contrib[i].picked) :
              /\ k > Len(contrib[i].first)
              /\ contrib[i].picked[k].main_author \in used_authors

\* C10: what a stratum contributes before the trim / top-up is a list of
\* pairwise distinct entries of that stratum, min(quota, stratum size) long.
C10_StratumContribution ==
    \A i \in 1..Len(contrib) :
        LET c == contrib[i]
        IN  /\ DistinctIds(c.picked)
            /\ \A k \in 1..Len(c.picked) :
                   /\ c.picked[k].system = c.system
                   /\ c.picked[k] \in Range(entries)
            /\ c.need = alloc[c.system]
            /\ c.size = StratumSize(c.system)
            /\ Len(c.picked) = Min(c.need, c.size)

\* C10 witness: a stratum of three entries naming one author, quota 3: the
\* first pass chose one entry, the second pass filled the other two.
C10_Witness ==
    \E i \in 1..Len(contrib) :
        /\ contrib[i].need = 3
        /\ Len(contrib[i].first) = 1
        /\ Len(contrib[i].picked) = 3
        /\ DistinctKeys(contrib[i].picked) = 1
        /\ \A k \in 1..3 : contrib[i].picked[k].main_author # NoAuthor

\* C11: once the allocation is finished, no stratum holds a quota above the
\* number of its entries, so min(quota, size) is the quota.
C11_QuotaWithinStratum ==
    AllocationDone
        => \A s \in DOMAIN buckets :
               /\ alloc[s] <= Len(buckets[s])
               /\ Min(alloc[s], Len(buckets[s])) = alloc[s]

\* C11 witness: with a target below the population size, the fix-up loop has
\* raised a quota to the size of its stratum.
C11_Witness ==
    /\ pc = "select"
    /\ requested < Len(entries)
    /\ \E i \in 1..Len(visited) :
           /\ visited[i].delta = 1
           /\ alloc[visited[i].system] = Len(buckets[visited[i].system])

\* C12: a call with target <= 0 raises "target_size must be positive" whatever
\* the population, the empty one included; it returns no sample, draws nothing
\* from the generator and leaves the population as it was.
C12_InvalidTarget ==
    /\ [](  (requested <= 0 /\ pc # "start")
             => /\ pc = "error"
                /\ error = "target_size must be positive"
                /\ selected = <<>>
                /\ buckets = <<>>  )
    /\ [][ requested <= 0 => (entries' = entries /\ rng' = rng) ]_vars

\* C12 witness: a call with target <= 0 on the empty population has raised.
C12_Witness ==
    /\ requested <= 0
    /\ entries = <<>>
    /\ pc = "error"

\* Sum of the quotas as the proportional rounding sets them, before the fix-up.
InitialSum ==
    SumOver([s \in DOMAIN buckets |->
                InitialQuota(Len(buckets[s]), n_total, target_size)], bucket_keys)

\* Units the surplus loop has taken so far.
Removed == Cardinality({ i \in 1..Len(visited) : visited[i].delta = -1 })

\* C19: when the initial quotas sum to more than the target, the surplus loop
\* takes the strata cyclically in descending order of size, takes a unit exactly
\* from the quotas above 1, runs on only while units are left to remove and some
\* quota is above 1, makes at most (surplus x number of strata) iterations, and
\* ends with the whole surplus removed or with every quota <= 1.
C19_SurplusLoop ==
    (pc \in {"remove", "select", "reconcile", "done"} /\ InitialSum > target_size)
        => /\ VisitedCyclically(systems_sorted)
           /\ \A i, j \in 1..Len(systems_sorted) :
                  i < j => StratumSize(systems_sorted[i]) >= StratumSize(systems_sorted[j])
           /\ \A i \in 1..Len(visited) :
                  visited[i].delta = IF visited[i].before > 1 THEN -1 ELSE 0
           /\ Len(visited) <= (InitialSum - target_size) * Len(systems_sorted)
           /\ QuotaSum = InitialSum - Removed
           /\ pc = "remove" => /\ Removed < InitialSum - target_size
                               /\ \E s \in DOMAIN alloc : alloc[s] > 1
           /\ pc # "remove" => \/ Removed = InitialSum - target_size
                               \/ \A s \in DOMAIN alloc : alloc[s] <= 1

\* C19 witness: the surplus loop has gone round the strata more than once,
\* passing strata that hold one unit, and has removed the whole surplus.
C19_Witness ==
    /\ pc = "select"
    /\ InitialSum > target_size
    /\ Len(visited) > Len(systems_sorted)
    /\ \E i \in 1..Len(visited) : visited[i].delta = 0
    /\ Removed = InitialSum - target_size

\* C20: for a non-empty population of m non-empty strata and a target t >= 1
\* (clamped), the quotas after the fix-up sum to max(t, m): to t when t >= m;
\* when t < m every quota is 1, the strata contribute m entries and the
\* returned sample holds t.
C20_QuotaSumMax ==
    (AllocationDone /\ requested >= 1 /\ entries # <<>>)
        => /\ QuotaSum = Max(target_size, NumStrata)
           /\ target_size >= NumStrata => QuotaSum = target_size
           /\ target_size < NumStrata =>
                  /\ \A s \in DOMAIN alloc : alloc[s] = 1
                  /\ QuotaSum = NumStrata
                  /\ pc \in {"reconcile", "done"} =>
                         Len(Contributed(contrib)) = NumStrata
                  /\ pc = "done" => Len(selected) = target_size

\* C20 witness: with fewer units asked for than there are strata, the surplus
\* loop took a unit and stopped above the target, and the trim brought the
\* sample down to it.
C20_Witness ==
    /\ pc = "done"
    /\ target_size < NumStrata
    /\ Removed >= 1
    /\ QuotaSum > target_size
    /\ Len(selected) = target_size

\* Positions of the positive sizes of ts, in order.
PositiveIndices(ts) == SelectSeq([i \in 1..Len(ts) |-> i], LAMBDA i : ts[i] > 0)

\* C13: when main has finished, the sampling function was called and a file
\* pair written once for each positive size of TARGET_SIZES, in order, and for
\* no other position; each sample written holds min(size, population) entries
\* and its two files exist.
C13_NonPositiveSkipped ==
    main_pc = "finished"
        => /\ [k \in 1..Len(calls) |-> calls[k].size_no] = PositiveIndices(target_sizes)
           /\ [k \in 1..Len(written) |-> written[k].size_no] = PositiveIndices(target_sizes)
           /\ \A k \in 1..Len(written) :
                  /\ Len(written[k].sample) = Min(written[k].asked, Len(entries))
                  /\ FileName(variant, written[k].size, ".json") \in DOMAIN files
                  /\ FileName(variant, written[k].size, ".csv") \in DOMAIN files

\* C13 witness: main has finished a list whose first size is not positive and
\* whose second is, with one sample written.
C13_Witness ==
    /\ main_pc = "finished"
    /\ target_sizes[1] <= 0
    /\ target_sizes[2] > 0
    /\ Len(written) = 1
    /\ written[1].size_no = 2

\* C14: on an empty population main stops before the loop: no call of the
\* sampling function, no draw, no file; and a direct call with a positive
\* target on an empty population raises "no entries available for sampling"
\* and returns nothing.
C14_EmptyPopulation ==
    /\ (main_pc # "none" /\ entries = <<>>)
           => /\ main_pc \in {"fetched", "aborted"}
              /\ calls = <<>>
              /\ written = <<>>
              /\ DOMAIN files = {}
              /\ pc = "idle"
              /\ selected = <<>>
              /\ rng = [tape |-> <<>>, pos |-> 0]
    /\ (main_pc = "none" /\ entries = <<>> /\ requested > 0 /\ pc # "start")
           => /\ pc = "error"
              /\ error = "no entries available for sampling"
              /\ selected = <<>>
              /\ rng = [tape |-> <<>>, pos |-> 0]

\* C14 witness: main has stopped on an empty population although
\* TARGET_SIZES holds a positive size.
C14_Witness ==
    /\ main_pc = "aborted"
    /\ entries = <<>>
    /\ \E i \in 1..Len(target_sizes) : target_sizes[i] > 0

\* The positive sizes of TARGET_SIZES.
PositiveSizes == { target_sizes[i] : i \in Range(PositiveIndices(target_sizes)) }

\* C16: when main has finished, the sampling function was called once per
\* positive size, the file pair of each positive size carries that requested
\* size in its names, k distinct positive sizes have left k distinct pairs, and
\* no two distinct sizes wrote the same pair.
C16_Original ==
    main_pc = "finished"
        => /\ Len(calls) = Len(PositiveIndices(target_sizes))
           /\ \A t \in PositiveSizes :
                  /\ FileName(variant, t, ".json") \in DOMAIN files
                  /\ FileName(variant, t, ".csv") \in DOMAIN files
           /\ Cardinality(DOMAIN files) = 2 * Cardinality(PositiveSizes)
           /\ \A j, k \in 1..Len(written) :
                  written[j].asked # written[k].asked => written[j].size # written[k].size

\* C17: the sample main wrote for its last size is the sample a process
\* sampling only that size obtains from the same seed, whatever sizes main
\* sampled before it; and the authors used at the end of a call are those of
\* the entries its own first pass chose.
C17_Original ==
    /\ (run_no = 2 /\ pc = "done") => selected = first_result.sample
    /\ (variant = "diverse" /\ pc \in {"reconcile", "done"})
           => LET fc == FirstChosen(contrib)
              IN  used_authors = { fc[i].main_author : i \in 1..Len(fc) }

\* The hits received so far that carry "entry_id", in order.
Wellformed == SelectSeq(received, LAMBDA d : d.has_id)

\* Hits received so far that were skipped for want of "entry_id".
SkippedCount == Len(received) - Len(Wellformed)

\* What the printed lines report, as (label, number) pairs.
Reported ==
    UNION { IF printed[k].text = "page"
            THEN { <<"page", printed[k].page>>, <<"fetched", printed[k].fetched>>,
                   <<"total so far", printed[k].total>> }
            ELSE IF printed[k].text = "done"
            THEN { <<"total fetched", printed[k].total>> }
            ELSE {} : k \in 1..Len(printed) }

\* Hits received in the first k responses, as the page lines report them.
RECURSIVE FetchedUpTo(_)
FetchedUpTo(k) == IF k = 0 THEN 0 ELSE printed[k].fetched + FetchedUpTo(k - 1)

\* all_entries holds, in the order received, one entry for each hit that
\* carries "entry_id", and none for the others.
CollectedInOrder ==
    /\ Len(all_entries) = Len(Wellformed)
    /\ \A i \in 1..Len(all_entries) : all_entries[i].entry_id = Wellformed[i].entry_id
    /\ \A i, j \in 1..Len(all_entries) :
           i < j => all_entries[i].entry_id < all_entries[j].entry_id

\* C15 as claimed: a hit without "entry_id" is skipped, every other hit of the
\* same and of the later pages is collected in order, and the number of
\* skipped hits is reported.
C15_Original ==
    fetch_pc = "done"
        => /\ CollectedInOrder
           /\ SkippedCount >= 1 => <<"skipped", SkippedCount>> \in Reported

\* C15 amended: a hit without "entry_id" is skipped and every other hit of the
\* same and of the later pages is collected in order; the number of skipped
\* hits is not printed: each page line gives the number of hits of the page
\* and the number of entries collected so far, the last line the number
\* collected, so that the skipped are the hits received less the total.
C15_SkipMalformed ==
    fetch_pc \in {"request", "done"}
        => /\ CollectedInOrder
           /\ \A k \in 1..page :
                  /\ printed[k].text = "page"
                  /\ printed[k].page = k
                  /\ printed[k].fetched >= 1
                  /\ printed[k].total =
                         Len(SelectSeq(SubSeq(received, 1, FetchedUpTo(k)),
                                       LAMBDA d : d.has_id))
           /\ FetchedUpTo(page) = Len(received)
           /\ fetch_pc = "done" =>
                  /\ Len(printed) = page + 1
                  /\ printed[page + 1].text = "done"
                  /\ printed[page + 1].total = Len(all_entries)
                  /\ SkippedCount = FetchedUpTo(page) - printed[page + 1].total
           /\ { r \in Reported : r[1] = "skipped" } = {}

\* C15 witness: the fetch is done after two pages; the first hit of the first
\* page had no "entry_id", the second hit of that page and the hit of the
\* second page were collected.
C15_Witness ==
    /\ fetch_pc = "done"
    /\ page = 2
    /\ printed[1].fetched = 2
    /\ Len(received) >= 3
    /\ ~received[1].has_id
    /\ received[2].has_id
    /\ received[3].has_id
    /\ Len(all_entries) >= 2

\* cs holds whitespace only (or nothing).
Blank(cs) == \A i \in 1..Len(cs) : IsSpace(cs[i])

\* t is cs without its leading and trailing whitespace, and is not empty.
IsStripOf(t, cs) ==
    /\ t # <<>>
    /\ ~IsSpace(t[1])
    /\ ~IsSpace(t[Len(t)])
    /\ \E a \in 0..Len(cs) :
           /\ a + Len(t) <= Len(cs)
           /\ SubSeq(cs, a + 1, a + Len(t)) = t
           /\ Blank(SubSeq(cs, 1, a))
           /\ Blank(SubSeq(cs, a + Len(t) + 1, Len(cs)))

\* v is a string that holds more than whitespace.
Usable(v) == v.kind = "str" /\ ~Blank(v.chars)

\* raw is an object whose name and email are both unusable.
FallsBack(raw) ==
    /\ raw.kind = "dict"
    /\ ~Usable(DictGet(raw.items, "name"))
    /\ ~Usable(DictGet(raw.items, "email"))

ItemSet(raw) == { raw.items[i] : i \in 1..Len(raw.items) }

\* The main_author of entry i is resolved from its source in the order:
\* the string itself, the object's name, its email, its serialization, which
\* is the same for two objects exactly when they hold the same items.
ResolvedInPriority(i) ==
    LET raw == Wellformed[i].main_author
        res == all_entries[i].main_author
    IN  /\ res.some => res.text # <<>>
        /\ Usable(raw) => (res.some /\ IsStripOf(res.text, raw.chars))
        /\ raw.kind = "dict" =>
               LET name == DictGet(raw.items, "name")
                   email == DictGet(raw.items, "email")
               IN  /\ res.some
                   /\ Usable(name) => IsStripOf(res.text, name.chars)
                   /\ (~Usable(name) /\ Usable(email)) => IsStripOf(res.text, email.chars)
                   /\ FallsBack(raw) =>
                          /\ res.text[1] = "{"
                          /\ res.text[Len(res.text)] = "}"
                          /\ \A j \in 1..Len(all_entries) :
                                 FallsBack(Wellformed[j].main_author) =>
                                     ((all_entries[j].main_author = res)
                                          <=> (ItemSet(Wellformed[j].main_author) = ItemSet(raw)))

\* C18 as claimed: main_author is absent exactly when the hit has no (or a
\* null) "main_author", and else a non-empty string resolved in the priority
\* order string, name, email, serialization.
C18_Original ==
    (variant = "diverse" /\ fetch_pc \in {"request", "done"} /\ CollectedInOrder)
        => \A i \in 1..Len(all_entries) :
               /\ (~all_entries[i].main_author.some)
                      <=> (Wellformed[i].main_author.kind \in {"missing", "null"})
               /\ ResolvedInPriority(i)

\* C18 amended: main_author is absent exactly when the hit has no or a null
\* "main_author", or one that is neither a string nor an object, or a string
\* that is empty or whitespace only; else it is a non-empty string resolved in
\* the priority order string (stripped), name (stripped), email (stripped),
\* key-sorted serialization.
C18_MainAuthor ==
    (variant = "diverse" /\ fetch_pc \in {"request", "done"} /\ CollectedInOrder)
        => \A i \in 1..Len(all_entries) :
               LET raw == Wellformed[i].main_author
               IN  /\ (~all_entries[i].main_author.some)
                          <=> \/ raw.kind \in {"missing", "null", "num"}
                              \/ raw.kind = "str" /\ Blank(raw.chars)
                   /\ ResolvedInPriority(i)

\* C18 witness: two hits whose authors are objects with the same two items in
\* different orders, neither with a usable name or email, were given the same
\* serialization.
C18_Witness ==
    /\ variant = "diverse"
    /\ fetch_pc = "done"
    /\ Len(all_entries) = 2
    /\ Len(received) = 2
    /\ FallsBack(received[1].main_author)
    /\ FallsBack(received[2].main_author)
    /\ Len(received[1].main_author.items) = 2
    /\ received[1].main_author.items # received[2].main_author.items
    /\ ItemSet(received[1].main_author) = ItemSet(received[2].main_author)
    /\ all_entries[1].main_author = all_entries[2].main_author

\* C21: in a call on a non-empty population with a target >= 1, the strata
\* have together selected at least target_size (clamped) entries when the
\* reconciliation starts, so the top-up branch is not taken: the sample
\* returned is what the strata selected, or a trim of it, and holds no entry
\* drawn from the complement pool.
C21_NoTopUp ==
    /\ pc = "reconcile" =>
           /\ Len(selected) >= target_size
           /\ Len(selected) = QuotaSum
           /\ selected = Contributed(contrib)
    /\ pc = "done" =>
           /\ Len(Contributed(contrib)) >= target_size
           /\ Range(selected) \subseteq Range(Contributed(contrib))
           /\ Len(Contributed(contrib)) = target_size
                  => selected = Contributed(contrib)

\* C21 witness: the quotas fell short of the target, the loop that hands out
\* the remaining units raised one, and the strata then selected exactly
\* target_size entries out of a larger population.
C21_Witness ==
    /\ pc = "reconcile"
    /\ NumStrata >= 2
    /\ target_size < Len(entries)
    /\ \E i \in 1..Len(visited) : visited[i].delta = 1
    /\ Len(selected) = target_size

\* Number of entries of q that belong to stratum s.
CountIn(q, s) == Cardinality({ i \in 1..Len(q) : q[i].system = s })

\* C22: when the target (clamped to the population size) is at least the
\* number of non-empty strata, the returned sample holds, for every non-empty
\* stratum, exactly as many of its entries as its final quota, which is at
\* least one; the reconciliation changes nothing, so no stratum is dropped.
C22_EveryStratumKept ==
    (pc = "done" /\ target_size >= NumStrata)
        => /\ \A s \in DOMAIN buckets :
                  /\ buckets[s] # <<>>
                  /\ CountIn(selected, s) = alloc[s]
                  /\ CountIn(selected, s) >= 1
           /\ { entries[i].system : i \in 1..Len(entries) } =
                  { selected[i].system : i \in 1..Len(selected) }
           /\ selected = Contributed(contrib)

\* C22 witness: three strata of 11, 1 and 1 entries and a target of 3: the
\* surplus loop brought every quota to one and the sample of three holds one
\* entry of each stratum.
C22_Witness ==
    /\ pc = "done"
    /\ NumStrata = 3
    /\ target_size = 3
    /\ Len(entries) > 3
    /\ Removed >= 1
    /\ \A s \in DOMAIN buckets : CountIn(selected, s) = 1

\* Number of hits the first k responses carried.
RECURSIVE HitsUpTo(_)
HitsUpTo(k) == IF k = 0 THEN 0 ELSE exchanges[k].hits + HitsUpTo(k - 1)

\* The k-th request got a response that lets the loop go on: no HTTP error,
\* some hits and a next_page_after_value.
GoesOn(k) ==
    /\ exchanges[k].status = "ok"
    /\ exchanges[k].hits > 0
    /\ Truthy(exchanges[k].next_val)

\* C23: the fetch sends its requests one after another; the first carries no
\* page_after_value and every later one carries the next_page_after_value of
\* the response just before it.  Every response but the last had hits and
\* named a next page; the fetch has returned exactly when the last response
\* had no hits or named no next page (the value missing, null or empty), and
\* it then returns, in the order received, one entry for every hit of all
\* responses that carries "entry_id".  After an HTTP error the fetch has
\* raised and returned nothing.
C23_Pagination ==
    fetch_pc # "none" =>
        LET n == Len(exchanges)
        IN  /\ n >= 1 => exchanges[1].page_after_value = JMissing
            /\ \A k \in 2..n :
                   exchanges[k].page_after_value = exchanges[k - 1].next_val
            /\ \A k \in 1..(n - 1) : GoesOn(k)
            /\ HitsUpTo(n) = Len(received)
            /\ fetch_pc = "request" =>
                   /\ n >= 1 => GoesOn(n)
                   /\ ~returned.done
            /\ fetch_pc = "done" =>
                   /\ n >= 1
                   /\ exchanges[n].status = "ok"
                   /\ exchanges[n].hits = 0 \/ ~Truthy(exchanges[n].next_val)
                   /\ returned.done
                   /\ Len(returned.value) = Len(Wellformed)
                   /\ \A i \in 1..Len(Wellformed) :
                          returned.value[i] = FromApiResult(variant, Wellformed[i])
            /\ fetch_pc = "raised" =>
                   /\ n >= 1
                   /\ exchanges[n].status = "error"
                   /\ returned = NotReturned
            /\ returned.done => fetch_pc = "done"

\* C23 witness: three requests; the third carried the value of the second
\* response, not of the first; its response had hits and named no next page,
\* and the fetch returned the hits of the three pages that carry "entry_id",
\* having skipped one.
C23_Witness ==
    /\ fetch_pc = "done"
    /\ Len(exchanges) = 3
    /\ exchanges[3].page_after_value = exchanges[2].next_val
    /\ exchanges[2].next_val # exchanges[1].next_val
    /\ exchanges[3].hits >= 1
    /\ ~Truthy(exchanges[3].next_val)
    /\ SkippedCount >= 1
    /\ Len(returned.value) = Len(received) - SkippedCount
    /\ Len(returned.value) >= 3

====
